---- MODULE Spec2Model ----
(***************************************************************************)
(* A model of the site crawler (parses.py, class CompleteWebsiteScraper)   *)
(* and of the question loop (main.py, answer_questions / call_llm).        *)
(*                                                                         *)
(* Strings are sequences of one-character strings, so that endswith,       *)
(* lower, split, urlparse and urljoin are computed character by character. *)
(***************************************************************************)
EXTENDS Integers, Sequences, FiniteSets, TLC

VARIABLES
    root_url,       \* self.root_url
    max_pages,      \* self.max_pages
    site,           \* the web site crawled: URL -> response of session.get
    visited_urls,   \* self.visited_urls
    data,           \* self.data
    stack,          \* the activations of scrape_page, innermost first
    pc,             \* where run() is: "idle", "running", "done"
    fetch_log,      \* the URLs of the calls session.get(url, timeout=30), in order
    el_base,        \* extract_links: base_url
    el_anchors,     \* extract_links: the hrefs of soup.find_all('a', href=True)
    el_i,           \* extract_links: how many anchors the loop has handled
    el_links,       \* extract_links: links
    questions,      \* answer_questions: questions
    replies,        \* what the completion endpoint does for each question
    q_i,            \* answer_questions: how many questions the loop has handled
    answers,        \* answer_questions: answers
    llm_calls,      \* the questions whose completion request was issued, in order
    a_pc            \* where answer_questions is: "loop", "returned", "raised"

vars == <<root_url, max_pages, site, visited_urls, data, stack, pc, fetch_log,
          el_base, el_anchors, el_i, el_links,
          questions, replies, q_i, answers, llm_calls, a_pc>>

crawl_vars == <<root_url, max_pages, site, visited_urls, data, stack, pc, fetch_log>>
links_vars == <<el_base, el_anchors, el_i, el_links>>
answer_vars == <<questions, replies, q_i, answers, llm_calls, a_pc>>

----------------------------------------------------------------------------
(* Bounds of the model. *)

\* max_pages ranges over 0..MaxPagesBound
MaxPagesBound == 7

\* extract_links is applied to every anchor list of at most MaxAnchors hrefs
MaxAnchors == 2

\* answer_questions is applied to every question list of at most MaxQuestions
MaxQuestions == 3

----------------------------------------------------------------------------
(* str methods *)

UpperCase == <<"A","B","C","D","E","F","G","H","I","J","K","L","M",
               "N","O","P","Q","R","S","T","U","V","W","X","Y","Z">>
LowerCase == <<"a","b","c","d","e","f","g","h","i","j","k","l","m",
               "n","o","p","q","r","s","t","u","v","w","x","y","z">>
Digits == {"0","1","2","3","4","5","6","7","8","9"}

Range(s) == {s[i] : i \in 1..Len(s)}

Letters == Range(UpperCase) \cup Range(LowerCase)

\* str.lower(), one character
LowerChar(c) ==
    IF c \in Range(UpperCase)
    THEN LowerCase[CHOOSE i \in 1..Len(UpperCase) : UpperCase[i] = c]
    ELSE c

\* str.lower()
lower(s) == [i \in 1..Len(s) |-> LowerChar(s[i])]

\* str.endswith(suffix)
endswith(s, suffix) ==
    /\ Len(s) >= Len(suffix)
    /\ SubSeq(s, Len(s) - Len(suffix) + 1, Len(s)) = suffix

\* s[:n] == prefix
startswith(s, prefix) ==
    /\ Len(s) >= Len(prefix)
    /\ SubSeq(s, 1, Len(prefix)) = prefix

\* str.find(c) + 1: the first position of a character of C in s, 0 when none
FindAny(s, C) ==
    IF \E i \in 1..Len(s) : s[i] \in C
    THEN CHOOSE i \in 1..Len(s) : s[i] \in C /\ \A j \in 1..(i - 1) : s[j] \notin C
    ELSE 0

\* str.split(c)
RECURSIVE split(_, _)
split(s, c) ==
    LET i == FindAny(s, {c})
    IN  IF i = 0 THEN <<s>>
        ELSE <<SubSeq(s, 1, i - 1)>> \o split(SubSeq(s, i + 1, Len(s)), c)

\* c.join(parts)
RECURSIVE join(_, _)
join(parts, c) ==
    IF parts = <<>> THEN <<>>
    ELSE IF Len(parts) = 1 THEN parts[1]
    ELSE parts[1] \o <<c>> \o join(Tail(parts), c)

\* list(filter(None, parts)): the non-empty strings of parts, in order
RECURSIVE filter_none(_)
filter_none(parts) ==
    IF parts = <<>> THEN <<>>
    ELSE (IF parts[1] = <<>> THEN <<>> ELSE <<parts[1]>>) \o filter_none(Tail(parts))

----------------------------------------------------------------------------
(* urllib.parse, as extract_links and is_valid_url use it *)

SchemeChars == Letters \cup Digits \cup {"+", "-", "."}

\* the schemes of uses_relative and uses_netloc that the hrefs here can spell
UsesRelative == {<<>>, <<"h","t","t","p">>, <<"h","t","t","p","s">>, <<"f","t","p">>}

\* urlsplit, last step: the query is what follows the first '?' (q: its place)
parse_query(scheme, netloc, r3, fragment, q) ==
    [scheme |-> scheme, netloc |-> netloc,
     path |-> IF q = 0 THEN r3 ELSE SubSeq(r3, 1, q - 1),
     query |-> IF q = 0 THEN <<>> ELSE SubSeq(r3, q + 1, Len(r3)),
     fragment |-> fragment]

\* urlsplit: the fragment is what follows the first '#' (f: its place)
parse_fragment(scheme, netloc, r2, f) ==
    parse_query(scheme, netloc,
                IF f = 0 THEN r2 ELSE SubSeq(r2, 1, f - 1),
                IF f = 0 THEN <<>> ELSE SubSeq(r2, f + 1, Len(r2)),
                FindAny(IF f = 0 THEN r2 ELSE SubSeq(r2, 1, f - 1), {"?"}))

\* _splitnetloc(url, 2): the netloc ends at the first of '/', '?', '#' (d: its place)
parse_netloc(scheme, afterSl, d) ==
    IF d = 0
    THEN parse_fragment(scheme, afterSl, <<>>, 0)
    ELSE parse_fragment(scheme, SubSeq(afterSl, 1, d - 1),
                        SubSeq(afterSl, d, Len(afterSl)),
                        FindAny(SubSeq(afterSl, d, Len(afterSl)), {"#"}))

\* urlsplit after the scheme: a netloc follows '//'
parse_rest(scheme, r1) ==
    IF startswith(r1, <<"/", "/">>)
    THEN parse_netloc(scheme, SubSeq(r1, 3, Len(r1)),
                      FindAny(SubSeq(r1, 3, Len(r1)), {"/", "?", "#"}))
    ELSE parse_fragment(scheme, <<>>, r1, FindAny(r1, {"#"}))

\* urlsplit: url[:i] is a scheme when it starts with a letter and holds only
\* scheme characters (i: the place of the first ':')
parse_scheme(url, default_scheme, i) ==
    IF i > 1 /\ url[1] \in Letters /\ \A k \in 1..(i - 1) : url[k] \in SchemeChars
    THEN parse_rest(lower(SubSeq(url, 1, i - 1)), SubSeq(url, i + 1, Len(url)))
    ELSE parse_rest(default_scheme, url)

\* urlparse(url, scheme): scheme, netloc, path, query, fragment
urlparse(url, default_scheme) == parse_scheme(url, default_scheme, FindAny(url, {":"}))

\* urlunsplit: '//' + netloc + path, the path given a leading '/'
unparse_netloc(p) ==
    IF \/ p.netloc # <<>>
       \/ (p.scheme # <<>> /\ p.scheme \in UsesRelative
              /\ ~startswith(p.path, <<"/", "/">>))
    THEN <<"/", "/">> \o p.netloc
           \o (IF p.path # <<>> /\ p.path[1] # "/" THEN <<"/">> ELSE <<>>)
           \o p.path
    ELSE p.path

\* urlunparse((scheme, netloc, path, '', query, fragment))
urlunparse(p) ==
    (IF p.scheme # <<>> THEN p.scheme \o <<":">> ELSE <<>>)
    \o unparse_netloc(p)
    \o (IF p.query # <<>> THEN <<"?">> \o p.query ELSE <<>>)
    \o (IF p.fragment # <<>> THEN <<"#">> \o p.fragment ELSE <<>>)

\* the loop of urljoin over the path segments: '.' dropped, '..' pops
RECURSIVE resolve_segments(_, _)
resolve_segments(segments, resolved_path) ==
    IF segments = <<>> THEN resolved_path
    ELSE resolve_segments(Tail(segments),
            IF segments[1] = <<".", ".">>
            THEN (IF resolved_path = <<>> THEN <<>>
                  ELSE SubSeq(resolved_path, 1, Len(resolved_path) - 1))
            ELSE IF segments[1] = <<".">> THEN resolved_path
            ELSE Append(resolved_path, segments[1]))

\* urljoin: base_parts, the segments of the base path without its last
\* segment when that is not a directory
base_parts(bp) ==
    IF bp[Len(bp)] # <<>> THEN SubSeq(bp, 1, Len(bp) - 1) ELSE bp

\* urljoin: segments[1:-1] = filter(None, segments[1:-1])
squeeze(segments) ==
    IF Len(segments) <= 2 THEN segments
    ELSE <<segments[1]>> \o filter_none(SubSeq(segments, 2, Len(segments) - 1))
            \o <<segments[Len(segments)]>>

\* urljoin: if segments[-1] in ('.', '..'): resolved_path.append('')
with_trailing(segments, resolved_path) ==
    IF segments[Len(segments)] \in {<<".">>, <<".", ".">>}
    THEN Append(resolved_path, <<>>)
    ELSE resolved_path

\* path or '/'
or_slash(path) == IF path = <<>> THEN <<"/">> ELSE path

\* urljoin: the path of the result
resolve_path(segments) ==
    or_slash(join(with_trailing(segments, resolve_segments(segments, <<>>)), "/"))

\* urljoin(base, url), both parsed (b, u)
urljoin_parsed(url, b, u) ==
    IF u.scheme # b.scheme \/ u.scheme \notin UsesRelative THEN url
    ELSE urlunparse(
            IF u.netloc # <<>> THEN u
            ELSE IF u.path = <<>>
            THEN [u EXCEPT !.netloc = b.netloc, !.path = b.path,
                           !.query = IF u.query = <<>> THEN b.query ELSE u.query]
            ELSE [u EXCEPT !.netloc = b.netloc,
                           !.path = resolve_path(
                                IF u.path[1] = "/" THEN split(u.path, "/")
                                ELSE squeeze(base_parts(split(b.path, "/"))
                                                \o split(u.path, "/")))])

urljoin_base(url, b) == urljoin_parsed(url, b, urlparse(url, b.scheme))

\* urljoin(base, url)
urljoin(base, url) ==
    IF base = <<>> THEN url
    ELSE IF url = <<>> THEN base
    ELSE urljoin_base(url, urlparse(base, <<>>))

----------------------------------------------------------------------------
(* CompleteWebsiteScraper: the link classifier *)

ImageExts == {<<".","j","p","g">>, <<".","j","p","e","g">>, <<".","p","n","g">>,
              <<".","g","i","f">>, <<".","b","m","p">>}

\* is_valid_url(url): the URL has a netloc and it is the netloc of root_url (root)
is_valid_url(root, url) ==
    urlparse(url, <<>>).netloc \in {urlparse(root, <<>>).netloc} \ {<<>>}

\* links as extract_links creates it (files.pdf, files.images, files.other flattened)
EmptyLinks ==
    [internal |-> {}, external |-> {}, pdf |-> {}, images |-> {}, other |-> {}]

Buckets == {"internal", "external", "pdf", "images", "other"}

\* parts[-1]
last_part(parts) == parts[Len(parts)]

\* the if/elif chain of extract_links for one anchor: the bucket it is added to
bucket_of(root, href, absolute_url) ==
    IF ~is_valid_url(root, absolute_url) THEN "external"
    ELSE IF endswith(lower(href), <<".","p","d","f">>) THEN "pdf"
    ELSE IF \E ext \in ImageExts : endswith(lower(href), ext) THEN "images"
    ELSE IF "." \in Range(last_part(split(href, "/"))) THEN "other"
    ELSE "internal"

\* one iteration of the loop of extract_links
put_link(root, links, href, absolute_url) ==
    [links EXCEPT ![bucket_of(root, href, absolute_url)] = @ \cup {absolute_url}]

\* one iteration of the loop of extract_links: absolute_url = urljoin(base_url, href)
add_link(root, links, base_url, href) ==
    put_link(root, links, href, urljoin(base_url, href))

\* the loop of extract_links over the anchors that are left
RECURSIVE extract_links_from(_, _, _, _)
extract_links_from(root, links, anchors, base_url) ==
    IF anchors = <<>> THEN links
    ELSE extract_links_from(root, add_link(root, links, base_url, anchors[1]),
                            Tail(anchors), base_url)

\* extract_links(soup, base_url) of a scraper with root_url = root, soup given by
\* the hrefs of its anchors in document order
extract_links(root, anchors, base_url) ==
    extract_links_from(root, EmptyLinks, anchors, base_url)

----------------------------------------------------------------------------
(* The URLs, hrefs and pages the model draws from *)

Root == <<"h","t","t","p",":","/","/","h","/">>

Href_a      == <<"/","a">>
Href_b      == <<"/","b">>
Href_c      == <<"/","c">>
Href_d      == <<"/","d">>
Href_e      == <<"/","e">>
Href_f      == <<"/","f">>
Href_empty  == <<>>
Href_root   == <<"/">>
Href_adir   == <<"/","a","/">>
Href_adot   == <<"/","a","/",".">>
Href_rel    == <<"b","/">>
Href_pdf    == <<"/","g",".","p","d","f">>
Href_PDF    == <<"/","G",".","P","D","F">>
Href_png    == <<"/","i",".","p","n","g">>
Href_zip    == <<"/","x",".","z","i","p">>
Href_ext    == <<"/","/","o","/","x">>
Href_mail   == <<"m","a","i","l","t","o",":","x">>
Href_Host   == <<"h","t","t","p",":","/","/","H","/","a">>

Hrefs == {Href_a, Href_b, Href_empty, Href_root, Href_adir, Href_adot, Href_rel,
          Href_pdf, Href_PDF, Href_png, Href_zip, Href_ext, Href_mail, Href_Host}

\* pages, each given by the hrefs of its anchors in document order
DocNone  == <<>>
DocCycle == <<Href_empty, Href_root, Href_a>>
DocDual  == <<Href_adir, Href_adot, Href_ext, Href_pdf>>
DocHub   == <<Href_a, Href_b, Href_c, Href_d, Href_e, Href_f, Href_ext, Href_png>>
DocDeep  == <<Href_rel, Href_mail>>

\* what session.get(url) and the parse of its body come to
Err      == [status |-> "error",   anchors |-> <<>>]
NonHtml  == [status |-> "nonhtml", anchors |-> <<>>]
Html(doc) == [status |-> "html",   anchors |-> doc]

SmallURLs == {Root, urljoin(Root, Href_a), urljoin(Root, Href_adir)}
SmallResponses == {Err, NonHtml, Html(DocNone), Html(DocCycle), Html(DocDual)}

\* a site: the response of each of its pages, and of every other URL
SmallSites == {[pages |-> f, default |-> Err] : f \in [SmallURLs -> SmallResponses]}

HubSite ==
    [pages |-> (Root :> Html(DocHub)) @@ (urljoin(Root, Href_a) :> Err)
                 @@ (urljoin(Root, Href_b) :> NonHtml)
                 @@ (urljoin(Root, Href_c) :> Html(DocCycle)),
     default |-> Html(DocNone)]

DeepSite == [pages |-> (Root :> Html(DocDeep)), default |-> Html(DocDeep)]

Sites == SmallSites \cup {HubSite, DeepSite}

Response(s, url) == IF url \in DOMAIN s.pages THEN s.pages[url] ELSE s.default

Docs == {DocNone, DocCycle, DocDual, DocHub, DocDeep}

\* the URLs that n links lead to from Root, whatever pages the site serves
RECURSIVE Reachable(_)
Reachable(n) ==
    IF n = 0 THEN {Root}
    ELSE Reachable(n - 1)
            \cup UNION {extract_links(Root, d, u).internal : d \in Docs, u \in Reachable(n - 1)}

\* extract_links(soup, url) for every page of the model, computed once, so that
\* FetchHtml (and its enabling condition under fairness) only looks it up:
\* <<url, anchors, links>>
LinksTable ==
    {<<p[1], p[2], extract_links(Root, p[2], p[1])>> : p \in Reachable(MaxPagesBound) \X Docs}

\* self.extract_links(soup, url), looked up
links_of_page(url, anchors) ==
    (CHOOSE t \in LinksTable : t[1] = url /\ t[2] = anchors)[3]

----------------------------------------------------------------------------
(* CompleteWebsiteScraper: scrape_page and run                              *)
(*                                                                         *)
(* The recursion of scrape_page is a stack of activations. An activation   *)
(* is at "enter" (before the guard), at "fetch" (the URL is marked         *)
(* visited, session.get is next) or at "loop" (its record is appended and  *)
(* it walks list(links['internal'])[:5]). The text, images, metadata and   *)
(* files_content of a record change no decision of the crawl and are left  *)
(* out of it; an exception of any of their steps is the status "error".    *)

\* list(links['internal'])[:5]
FanOut == 5

Min(a, b) == IF a <= b THEN a ELSE b

\* the guard with the page cap off by one
scrape_guard_gt(url) ==
    url \in visited_urls \/ Cardinality(visited_urls) > max_pages

\* the guard without the visited check
scrape_guard_cap_only(url) ==
    Cardinality(visited_urls) >= max_pages

\* the first statement of scrape_page: return at once
scrape_guard(url) ==
    url \in visited_urls \/ Cardinality(visited_urls) >= max_pages

\* every internal link is followed
selections_all(internal) == {internal}

\* list(links['internal'])[:5]: a set has no order of its own, so the first five
\* of its list are any FanOut of its elements (all of them when there are fewer)
selections(internal) ==
    {T \in SUBSET internal : Cardinality(T) = Min(FanOut, Cardinality(internal))}

\* the record is put at the front of the list
data_prepend(records, record) == <<record>> \o records

\* self.data.append({...})
data_append(records, record) == Append(records, record)

\* the exception leaves scrape_page and unwinds every caller up to run()
unwind_all(frames) == <<>>

\* except Exception: print(...), after which the call returns to its caller
after_except(frames) == Tail(frames)

\* an activation of scrape_page(url) about to execute its first statement
NewFrame(url) ==
    [url |-> url, at |-> "enter", links |-> EmptyLinks, todo |-> {}, called |-> <<>>]

Top == stack[1]

\* run(): self.scrape_page(self.root_url)
Run ==
    /\ pc = "idle"
    /\ pc' = "running"
    /\ stack' = <<NewFrame(root_url)>>
    /\ UNCHANGED <<root_url, max_pages, site, visited_urls, data, fetch_log>>
    /\ UNCHANGED <<links_vars, answer_vars>>

\* scrape_page: the guard holds, return
EnterReturn ==
    /\ pc = "running" /\ stack # <<>> /\ Top.at = "enter"
    /\ scrape_guard(Top.url)
    /\ stack' = Tail(stack)
    /\ UNCHANGED <<root_url, max_pages, site, visited_urls, data, pc, fetch_log>>
    /\ UNCHANGED <<links_vars, answer_vars>>

\* scrape_page: the guard fails, self.visited_urls.add(url)
EnterVisit ==
    /\ pc = "running" /\ stack # <<>> /\ Top.at = "enter"
    /\ ~scrape_guard(Top.url)
    /\ visited_urls' = visited_urls \cup {Top.url}
    /\ stack' = <<[Top EXCEPT !.at = "fetch"]>> \o Tail(stack)
    /\ UNCHANGED <<root_url, max_pages, site, data, pc, fetch_log>>
    /\ UNCHANGED <<links_vars, answer_vars>>

\* scrape_page: session.get or raise_for_status (or a later step of the try block)
\* raises; the except block prints and the call returns
FetchError ==
    /\ pc = "running" /\ stack # <<>> /\ Top.at = "fetch"
    /\ Response(site, Top.url).status = "error"
    /\ fetch_log' = Append(fetch_log, Top.url)
    /\ stack' = after_except(stack)
    /\ UNCHANGED <<root_url, max_pages, site, visited_urls, data, pc>>
    /\ UNCHANGED <<links_vars, answer_vars>>

\* scrape_page: 'text/html' is not in the content type, return
FetchNonHtml ==
    /\ pc = "running" /\ stack # <<>> /\ Top.at = "fetch"
    /\ Response(site, Top.url).status = "nonhtml"
    /\ fetch_log' = Append(fetch_log, Top.url)
    /\ stack' = Tail(stack)
    /\ UNCHANGED <<root_url, max_pages, site, visited_urls, data, pc>>
    /\ UNCHANGED <<links_vars, answer_vars>>

\* scrape_page: self.data.append({...}) and the choice of the links of the loop
RecordPage(links) ==
    /\ data' = data_append(data, [url |-> Top.url, links |-> links])
    /\ \E T \in selections(links.internal) :
         stack' = <<[Top EXCEPT !.at = "loop", !.links = links, !.todo = T]>>
                     \o Tail(stack)

\* scrape_page: the page is parsed, its links classified (links =
\* self.extract_links(soup, url)), its record appended, and the links to recurse
\* into are taken
FetchHtml ==
    /\ pc = "running" /\ stack # <<>> /\ Top.at = "fetch"
    /\ Response(site, Top.url).status = "html"
    /\ fetch_log' = Append(fetch_log, Top.url)
    /\ RecordPage(links_of_page(Top.url, Response(site, Top.url).anchors))
    /\ UNCHANGED <<root_url, max_pages, site, visited_urls, pc>>
    /\ UNCHANGED <<links_vars, answer_vars>>

\* scrape_page: for link in ...: self.scrape_page(link)
Recurse ==
    /\ pc = "running" /\ stack # <<>> /\ Top.at = "loop"
    /\ \E link \in Top.todo :
        stack' = <<NewFrame(link),
                   [Top EXCEPT !.todo = @ \ {link}, !.called = Append(@, link)]>>
                    \o Tail(stack)
    /\ UNCHANGED <<root_url, max_pages, site, visited_urls, data, pc, fetch_log>>
    /\ UNCHANGED <<links_vars, answer_vars>>

\* scrape_page: the loop is over, the call returns
LoopReturn ==
    /\ pc = "running" /\ stack # <<>> /\ Top.at = "loop"
    /\ Top.todo = {}
    /\ stack' = Tail(stack)
    /\ UNCHANGED <<root_url, max_pages, site, visited_urls, data, pc, fetch_log>>
    /\ UNCHANGED <<links_vars, answer_vars>>

\* run(): return self.data
RunReturn ==
    /\ pc = "running" /\ stack = <<>>
    /\ pc' = "done"
    /\ UNCHANGED <<root_url, max_pages, site, visited_urls, data, stack, fetch_log>>
    /\ UNCHANGED <<links_vars, answer_vars>>

LinksIdle ==
    /\ el_base = <<>> /\ el_anchors = <<>> /\ el_i = 0 /\ el_links = EmptyLinks

AnswersIdle ==
    /\ questions = <<>> /\ replies = <<>> /\ q_i = 0 /\ answers = <<>>
    /\ llm_calls = <<>> /\ a_pc = "returned"

\* CompleteWebsiteScraper(root_url, max_pages), before run()
Init ==
    /\ root_url = Root
    /\ max_pages \in 0..MaxPagesBound
    /\ site \in Sites
    /\ visited_urls = {}
    /\ data = <<>>
    /\ stack = <<>>
    /\ pc = "idle"
    /\ fetch_log = <<>>
    /\ LinksIdle
    /\ AnswersIdle

Next ==
    \/ Run
    \/ EnterReturn
    \/ EnterVisit
    \/ FetchError
    \/ FetchNonHtml
    \/ FetchHtml
    \/ Recurse
    \/ LoopReturn
    \/ RunReturn

Spec == Init /\ [][Next]_vars

\* run() is one sequential call: whatever step is enabled is taken
FairSpec == Init /\ [][Next]_vars /\ WF_vars(Next)

----------------------------------------------------------------------------
(* extract_links on its own: every base and every short list of anchors *)

Bases == {Root, urljoin(Root, Href_a), urljoin(Root, Href_adir)}

RECURSIVE SeqsUpTo(_, _)
SeqsUpTo(S, n) ==
    IF n = 0 THEN {<<>>}
    ELSE SeqsUpTo(S, n - 1)
            \cup {Append(q, x) : q \in {r \in SeqsUpTo(S, n - 1) : Len(r) = n - 1}, x \in S}

CrawlIdle ==
    /\ root_url = Root /\ max_pages = 0 /\ site = DeepSite /\ visited_urls = {}
    /\ data = <<>> /\ stack = <<>> /\ pc = "idle" /\ fetch_log = <<>>

\* a call extract_links(soup, base_url) of a scraper whose root_url is Root
InitLinks ==
    /\ CrawlIdle
    /\ AnswersIdle
    /\ el_base \in Bases
    /\ el_anchors \in SeqsUpTo(Hrefs, MaxAnchors)
    /\ el_i = 0
    /\ el_links = EmptyLinks

\* extract_links: one iteration of for a in soup.find_all('a', href=True)
ExtractStep ==
    /\ el_i < Len(el_anchors)
    /\ el_links' = add_link(root_url, el_links, el_base, el_anchors[el_i + 1])
    /\ el_i' = el_i + 1
    /\ UNCHANGED <<el_base, el_anchors>>
    /\ UNCHANGED <<crawl_vars, answer_vars>>

NextLinks == ExtractStep

SpecLinks == InitLinks /\ [][NextLinks]_vars

----------------------------------------------------------------------------
(* main.py: answer_questions and call_llm *)

Whitespace == {" ", "\n", "\t"}

\* str.lstrip()
RECURSIVE lstrip(_)
lstrip(s) == IF s # <<>> /\ s[1] \in Whitespace THEN lstrip(Tail(s)) ELSE s

\* str.rstrip()
RECURSIVE rstrip(_)
rstrip(s) ==
    IF s # <<>> /\ s[Len(s)] \in Whitespace THEN rstrip(SubSeq(s, 1, Len(s) - 1)) ELSE s

\* str.strip()
strip(s) == rstrip(lstrip(s))

QuestionSet == {"q1", "q2"}

\* what client.chat.completions.create does for a request: it raises, or it
\* returns a message whose content is None or a text
Replies ==
    {[kind |-> "raise", content |-> <<>>], [kind |-> "none", content |-> <<>>],
     [kind |-> "text", content |-> <<" ", "o", "k", "\n">>],
     [kind |-> "text", content |-> <<"n", "o">>]}

None == [none |-> TRUE, text |-> <<>>]
Text(t) == [none |-> FALSE, text |-> t]

\* call_llm without its except block: the exception reaches the caller
call_llm_reraise(reply) ==
    IF reply.kind = "text"
    THEN [raised |-> FALSE, value |-> Text(strip(reply.content))]
    ELSE [raised |-> TRUE, value |-> None]

\* call_llm(prompt): the stripped content; when create or .strip() raises, the
\* except block prints and the function ends without a return: None
call_llm(reply) ==
    IF reply.kind = "text"
    THEN [raised |-> FALSE, value |-> Text(strip(reply.content))]
    ELSE [raised |-> FALSE, value |-> None]

\* answer_questions: answers.append((question, answer)), unless call_llm raised
AnswerWith(question, result) ==
    IF result.raised
    THEN /\ a_pc' = "raised"
         /\ UNCHANGED <<answers, q_i>>
    ELSE /\ answers' = Append(answers, <<question, result.value>>)
         /\ q_i' = q_i + 1
         /\ UNCHANGED a_pc

\* answer_questions(summary, questions) is called, answers = []
InitAnswers ==
    /\ CrawlIdle
    /\ LinksIdle
    /\ questions \in SeqsUpTo(QuestionSet, MaxQuestions)
    /\ replies \in [1..Len(questions) -> Replies]
    /\ q_i = 0
    /\ answers = <<>>
    /\ llm_calls = <<>>
    /\ a_pc = "loop"

\* answer_questions: one iteration of for question in questions
AnswerStep ==
    /\ a_pc = "loop" /\ q_i < Len(questions)
    /\ llm_calls' = Append(llm_calls, questions[q_i + 1])
    /\ AnswerWith(questions[q_i + 1], call_llm(replies[q_i + 1]))
    /\ UNCHANGED <<questions, replies>>
    /\ UNCHANGED <<crawl_vars, links_vars>>

\* answer_questions: return answers
AnswerReturn ==
    /\ a_pc = "loop" /\ q_i = Len(questions)
    /\ a_pc' = "returned"
    /\ UNCHANGED <<questions, replies, q_i, answers, llm_calls>>
    /\ UNCHANGED <<crawl_vars, links_vars>>

NextAnswers ==
    \/ AnswerStep
    \/ AnswerReturn

SpecAnswers == InitAnswers /\ [][NextAnswers]_vars

----------------------------------------------------------------------------
(* The properties *)

NetlocOf(url) == urlparse(url, <<>>).netloc

StatusOf(url) == Response(site, url).status

FetchesOf(url) == Cardinality({i \in 1..Len(fetch_log) : fetch_log[i] = url})

Recorded(url) == \E i \in 1..Len(data) : data[i].url = url

Calling == pc = "running" /\ stack # <<>> /\ Top.at = "enter"

\* C1: in every reachable state of a crawl the number of URLs in visited_urls
\* is at most max_pages.
PageCap == Cardinality(visited_urls) <= max_pages

\* C1, its case: the cap is reached and scrape_page is called with a new URL
PageCapReached ==
    /\ Calling
    /\ max_pages >= 2
    /\ Cardinality(visited_urls) = max_pages
    /\ Top.url \notin visited_urls

\* C2: during one crawl the page fetch session.get(url) is issued at most once
\* for any URL.
FetchOnce == \A i, j \in 1..Len(fetch_log) : fetch_log[i] = fetch_log[j] => i = j

\* C2, its case: scrape_page is called again with a URL whose fetch failed, from
\* another page than the first time or from the page itself
FailedUrlCalledAgain ==
    /\ Calling
    /\ Top.url \in visited_urls
    /\ StatusOf(Top.url) = "error"
    /\ FetchesOf(Top.url) = 1
    /\ Cardinality(visited_urls) < max_pages

\* C3: no two entries of self.data have the same url.
UniqueRecords == \A i, j \in 1..Len(data) : data[i].url = data[j].url => i = j

\* C3, its case: scrape_page is called with a URL that already has a record
RecordedUrlCalledAgain ==
    /\ Calling
    /\ Len(data) >= 2
    /\ Recorded(Top.url)
    /\ Cardinality(visited_urls) < max_pages

TheBuckets(links, url) == {b \in Buckets : url \in links[b]}

\* C4: extract_links places each resolved absolute URL in exactly one of the
\* five buckets internal, external, files.pdf, files.images, files.other.
ExactlyOneBucket ==
    \A i \in 1..el_i :
        Cardinality(TheBuckets(el_links, urljoin(el_base, el_anchors[i]))) = 1

FetchFails ==
    /\ pc = "running" /\ stack # <<>> /\ Top.at = "fetch"
    /\ StatusOf(Top.url) # "html"

\* C5: when the fetch of a URL fails or returns non-HTML, the URL stays in
\* visited_urls, no record is appended for it, and the call returns to the
\* calling scrape_page, whose remaining links are left to visit.
FailureContained ==
    /\ [](\A i \in 1..Len(data) : StatusOf(data[i].url) = "html")
    /\ [](\A i \in 1..Len(fetch_log) : fetch_log[i] \in visited_urls)
    /\ [][FetchFails =>
            /\ Top.url \in visited_urls'
            /\ data' = data
            /\ pc' = "running"
            /\ stack' = Tail(stack)]_vars

\* C5, its case: a page has called scrape_page for a link whose fetch failed and
\* afterwards for a further link, which was fetched and recorded
CallerWentOn ==
    \E k \in 1..Len(stack) : \E i, j \in 1..Len(stack[k].called) :
        /\ i < j
        /\ StatusOf(stack[k].called[i]) # "html"
        /\ \E m, n \in 1..Len(fetch_log) :
            /\ m < n
            /\ fetch_log[m] = stack[k].called[i]
            /\ fetch_log[n] = stack[k].called[j]
        /\ Recorded(stack[k].called[j])

\* C6: run() eventually returns, having made at most max_pages page fetches.
RunTerminates == <>(pc = "done" /\ Len(fetch_log) <= max_pages)

\* C6, its case: run() has returned from a site with a link cycle (a page that
\* links to itself) on which the page cap was used up
ReturnedFromCycle ==
    /\ pc = "done"
    /\ max_pages >= 2
    /\ Len(fetch_log) = max_pages
    /\ \E i \in 1..Len(data) : data[i].url \in data[i].links.internal

\* C7: every step leaves self.data unchanged or extends it by exactly one record
\* at the end.
AppendOnly ==
    [][\/ data' = data
       \/ /\ Len(data') = Len(data) + 1
          /\ SubSeq(data', 1, Len(data)) = data]_vars

\* C7, its case: records were appended before and after a fetch that failed
RecordsAroundFailure ==
    \E i, j \in 1..Len(data) : \E m, k, n \in 1..Len(fetch_log) :
        /\ i < j /\ m < k /\ k < n
        /\ fetch_log[m] = data[i].url
        /\ StatusOf(fetch_log[k]) # "html"
        /\ fetch_log[n] = data[j].url

ExpectedText(content) ==
    IF content = <<" ", "o", "k", "\n">> THEN <<"o", "k">> ELSE content

\* C8: answer_questions issues one completion call per question in list order,
\* and a call that raises neither stops the loop nor changes the pairs of the
\* other questions or their order.
AnswersComplete ==
    /\ a_pc # "raised"
    /\ Len(llm_calls) = q_i /\ Len(answers) = q_i
    /\ llm_calls = SubSeq(questions, 1, q_i)
    /\ \A i \in 1..Len(answers) :
        /\ answers[i][1] = questions[i]
        /\ replies[i].kind = "text" =>
                answers[i][2] = Text(ExpectedText(replies[i].content))
    /\ a_pc = "returned" => q_i = Len(questions)

\* C8, its case: the call of the second of three questions raised and
\* answer_questions has returned
MiddleCallRaised ==
    /\ a_pc = "returned"
    /\ Len(questions) = 3
    /\ questions[1] # questions[3]
    /\ replies[1].kind = "text" /\ replies[2].kind = "raise" /\ replies[3].kind = "text"

NotInternal(links) == links.external \cup links.pdf \cup links.images \cup links.other

\* the first half of C9 alone: every fetched URL is on the host of root_url
FetchedOnRootHost ==
    /\ \A i \in 1..Len(fetch_log) : NetlocOf(fetch_log[i]) = NetlocOf(root_url)
    /\ \A i \in 1..Len(data) : NetlocOf(data[i].url) = NetlocOf(root_url)

\* C9: every URL fetched as a page, and so every url of a record, has the netloc
\* of the root URL: a link classified external, files.pdf, files.images or
\* files.other is never passed to scrape_page.
OnlyInternalPassed ==
    /\ \A i \in 1..Len(fetch_log) : NetlocOf(fetch_log[i]) = NetlocOf(root_url)
    /\ \A i \in 1..Len(data) : NetlocOf(data[i].url) = NetlocOf(root_url)
    /\ \A k \in 1..(Len(stack) - 1) : stack[k].url \notin NotInternal(stack[k + 1].links)

====
